---- MODULE Spec2Model ----
(***************************************************************************)
(* A model of src/app.js: the CSV ingestion-and-query pipeline of the      *)
(* lottery results page (parseCSV, uniq, rowsForCurrentCategory,           *)
(* populateLotterySelect, applyFilters, render, setCategory, loadData and  *)
(* the event listeners).                                                   *)
(*                                                                         *)
(* A JavaScript string is a sequence of one-character strings, so that     *)
(* trimming, splitting, lower-casing, joining and substring search are     *)
(* computed character by character, as the code computes them.             *)
(***************************************************************************)
EXTENDS Integers, Sequences, FiniteSets, TLC

VARIABLES
    RAW,             \* app.js:19  the parsed dataset
    FILTERED,        \* app.js:20  the displayed result set
    CURRENT_CAT,     \* app.js:21  the active category
    lotSelValue,     \* els.lotSel.value
    lotSelOptions,   \* the <option>s of els.lotSel after "Todas"
    qValue,          \* els.q.value, as typed
    countPill,       \* els.countPill.textContent
    totalRows,       \* els.totalRows.textContent
    err,             \* els.err.textContent
    refreshDisabled, \* els.refreshBtn.disabled
    loads,           \* the loadData() calls suspended at an await
    lastOp,          \* history: the handler that completed last
    prevOp,          \* history: the handler that completed before it
    fnKind,          \* pure-function harness: which function is applied
    fnIn,            \* pure-function harness: its input
    fnOut,           \* pure-function harness: its result
    fnPc             \* pure-function harness: "in" before, "out" after

vars == << RAW, FILTERED, CURRENT_CAT, lotSelValue, lotSelOptions, qValue,
           countPill, totalRows, err, refreshDisabled, loads, lastOp, prevOp,
           fnKind, fnIn, fnOut, fnPc >>

appVars == << RAW, FILTERED, CURRENT_CAT, lotSelValue, lotSelOptions, qValue,
              countPill, totalRows, err, refreshDisabled, loads, lastOp, prevOp >>

fnVars == << fnKind, fnIn, fnOut, fnPc >>

-----------------------------------------------------------------------------
(* Characters and strings *)

NL == "\n"
DQ == "\""
COMMA == ","
SP == " "
EMPTY == << >>

UpperCase == << "A", "B", "C", "D", "E", "F", "G", "H", "I", "J", "K", "L", "M",
                "N", "O", "P", "Q", "R", "S", "T", "U", "V", "W", "X", "Y", "Z" >>
LowerCase == << "a", "b", "c", "d", "e", "f", "g", "h", "i", "j", "k", "l", "m",
                "n", "o", "p", "q", "r", "s", "t", "u", "v", "w", "x", "y", "z" >>

IsUpper(c) == \E i \in 1..Len(UpperCase) : UpperCase[i] = c

LowerChar(c) ==
    IF IsUpper(c)
    THEN LowerCase[CHOOSE i \in 1..Len(UpperCase) : UpperCase[i] = c]
    ELSE c

\* String.prototype.toLowerCase
toLowerCase(s) == [i \in 1..Len(s) |-> LowerChar(s[i])]

IsSpace(c) == c \in {SP, NL}

RECURSIVE TrimStart(_)
TrimStart(s) ==
    IF s # EMPTY /\ IsSpace(Head(s)) THEN TrimStart(Tail(s)) ELSE s

RECURSIVE TrimEnd(_)
TrimEnd(s) ==
    IF s # EMPTY /\ IsSpace(s[Len(s)]) THEN TrimEnd(SubSeq(s, 1, Len(s) - 1)) ELSE s

\* String.prototype.trim
trim(s) == TrimEnd(TrimStart(s))

\* Array.prototype.join over strings
RECURSIVE join(_, _)
join(parts, sep) ==
    IF parts = EMPTY THEN EMPTY
    ELSE IF Len(parts) = 1 THEN parts[1]
    ELSE parts[1] \o sep \o join(Tail(parts), sep)

\* String.prototype.includes: the first start position at which q occurs
RECURSIVE IncludesFrom(_, _, _)
IncludesFrom(s, q, i) ==
    IF i + Len(q) - 1 > Len(s) THEN FALSE
    ELSE IF SubSeq(s, i, i + Len(q) - 1) = q THEN TRUE
    ELSE IncludesFrom(s, q, i + 1)

includes(s, q) == IncludesFrom(s, q, 1)

s_categoria == <<"c", "a", "t", "e", "g", "o", "r", "i", "a">>
s_fecha == <<"f", "e", "c", "h", "a">>
s_loteria == <<"l", "o", "t", "e", "r", "i", "a">>
s_horario == <<"h", "o", "r", "a", "r", "i", "o">>
s_triple == <<"t", "r", "i", "p", "l", "e">>
s_terminal_a_b == <<"t", "e", "r", "m", "i", "n", "a", "l", "_", "a", "_", "b">>
s_terminal_c == <<"t", "e", "r", "m", "i", "n", "a", "l", "_", "c">>
s_numero == <<"n", "u", "m", "e", "r", "o">>
s_signo == <<"s", "i", "g", "n", "o">>
s_cacho == <<"c", "a", "c", "h", "o">>
s_animal == <<"a", "n", "i", "m", "a", "l">>
s_animalitos == <<"a", "n", "i", "m", "a", "l", "i", "t", "o", "s">>

-----------------------------------------------------------------------------
(* parseCSV, app.js:32-61 *)

\* text.split("\n")
RECURSIVE SplitLinesFrom(_, _, _, _)
SplitLinesFrom(s, i, cur, acc) ==
    IF i > Len(s) THEN Append(acc, cur)
    ELSE IF s[i] = NL THEN SplitLinesFrom(s, i + 1, EMPTY, Append(acc, cur))
    ELSE SplitLinesFrom(s, i + 1, Append(cur, s[i]), acc)

SplitLines(s) == SplitLinesFrom(s, 1, EMPTY, EMPTY)

\* The number of double quotes in s[from..Len(s)]
RECURSIVE QuotesFrom(_, _)
QuotesFrom(s, from) ==
    IF from > Len(s) THEN 0
    ELSE (IF s[from] = DQ THEN 1 ELSE 0) + QuotesFrom(s, from + 1)

\* The lookahead of the split pattern, (?=(?:(?:[^"]*"){2})*[^"]*$): the rest
\* of the line after the comma holds an even number of double quotes.
LookaheadMatches(line, i) == QuotesFrom(line, i + 1) % 2 = 0

IsSplitPoint(line, i) == line[i] = COMMA /\ LookaheadMatches(line, i)

\* r.split(/,(?=...)/)
RECURSIVE SplitCellsFrom(_, _, _, _)
SplitCellsFrom(line, i, cur, acc) ==
    IF i > Len(line) THEN Append(acc, cur)
    ELSE IF IsSplitPoint(line, i)
         THEN SplitCellsFrom(line, i + 1, EMPTY, Append(acc, cur))
    ELSE SplitCellsFrom(line, i + 1, Append(cur, line[i]), acc)

SplitCells(line) == SplitCellsFrom(line, 1, EMPTY, EMPTY)

\* v.replace(/^"|"$/g, ""): one leading and one trailing double quote go
StripQuotes(v) ==
    LET a == IF v # EMPTY /\ Head(v) = DQ THEN Tail(v) ELSE v
    IN  IF a # EMPTY /\ a[Len(a)] = DQ THEN SubSeq(a, 1, Len(a) - 1) ELSE a

CleanCell(v) == trim(StripQuotes(v))

\* One element of rows (app.js:36-40)
RowOf(line) == LET cells == SplitCells(line)
               IN  [i \in 1..Len(cells) |-> CleanCell(cells[i])]

\* rows (app.js:33-40)
RowsOf(text) == LET lines == SplitLines(trim(text))
                IN  [i \in 1..Len(lines) |-> RowOf(lines[i])]

\* The headers without the lower-casing
HeadersOf_KeepsCase(rows) == rows[1]

\* rows.shift().map((h) => h.toLowerCase())
HeadersOf(rows) == [i \in 1..Len(rows[1]) |-> toLowerCase(rows[1][i])]

\* headers.forEach((h, i) => (o[h] = r[i] || "")): each key holds what the
\* last header of that name assigned, the empty string for a cell that is
\* missing
BuildO(headers, r) ==
    [k \in { headers[i] : i \in DOMAIN headers } |->
        LET last == CHOOSE i \in DOMAIN headers :
                        /\ headers[i] = k
                        /\ \A j \in DOMAIN headers : headers[j] = k => j <= i
        IN  IF last <= Len(r) THEN r[last] ELSE EMPTY]

\* o.<key> || dflt
FieldOr(o, key, dflt) ==
    IF key \in DOMAIN o /\ o[key] # EMPTY THEN o[key] ELSE dflt

\* The object literal of app.js:47-59
RecordOf(headers, r) ==
    LET o == BuildO(headers, r)
    IN  [ categoria    |-> FieldOr(o, s_categoria, s_loteria),
          fecha        |-> FieldOr(o, s_fecha, EMPTY),
          loteria      |-> FieldOr(o, s_loteria, EMPTY),
          horario      |-> FieldOr(o, s_horario, EMPTY),
          triple       |-> FieldOr(o, s_triple, EMPTY),
          terminal_a_b |-> FieldOr(o, s_terminal_a_b, EMPTY),
          terminal_c   |-> FieldOr(o, s_terminal_c, EMPTY),
          numero       |-> FieldOr(o, s_numero, EMPTY),
          signo        |-> FieldOr(o, s_signo, EMPTY),
          cacho        |-> FieldOr(o, s_cacho, EMPTY),
          animal       |-> FieldOr(o, s_animal, EMPTY) ]

parseCSV(text) ==
    LET rows    == RowsOf(text)
        headers == HeadersOf(rows)
        data    == Tail(rows)
    IN  [i \in 1..Len(data) |-> RecordOf(headers, data[i])]

-----------------------------------------------------------------------------
(* uniq, escapeHtml, rowsForCurrentCategory, populateLotterySelect *)

\* [...new Set(arr)]: the distinct elements in first-seen order
RECURSIVE SetOrder(_, _)
SetOrder(arr, acc) ==
    IF arr = EMPTY THEN acc
    ELSE SetOrder(Tail(arr),
                  IF \E i \in 1..Len(acc) : acc[i] = Head(arr)
                  THEN acc ELSE Append(acc, Head(arr)))

\* Boolean(s) of a string
Truthy(s) == s # EMPTY

\* uniq without filter(Boolean)
uniq_KeepsEmpty(arr) == SetOrder(arr, EMPTY)

\* app.js:63-65
uniq(arr) == SelectSeq(SetOrder(arr, EMPTY), Truthy)

\* The order of two key sequences at the first place they differ: -1, 0 or 1
RECURSIVE LexCompare(_, _)
LexCompare(a, b) ==
    IF a = EMPTY /\ b = EMPTY THEN 0
    ELSE IF a = EMPTY THEN -1
    ELSE IF b = EMPTY THEN 1
    ELSE IF Head(a) < Head(b) THEN -1
    ELSE IF Head(a) > Head(b) THEN 1
    ELSE LexCompare(Tail(a), Tail(b))

\* The collation order of the letters and digits of the model's alphabet:
\* digits before letters, letters alphabetically.
Collation == << "0", "1", "2", "3", "4", "5", "6", "7", "8", "9" >> \o LowerCase

Rank(c) == IF \E i \in 1..Len(Collation) : Collation[i] = c
           THEN CHOOSE i \in 1..Len(Collation) : Collation[i] = c
           ELSE 0

\* The primary collation keys of a string: its letters regardless of case
PrimaryKeys(s) == [i \in 1..Len(s) |-> Rank(LowerChar(s[i]))]

\* The case keys: at equal letters the lower-case form sorts first
CaseKeys(s) == [i \in 1..Len(s) |-> IF IsUpper(s[i]) THEN 1 ELSE 0]

\* String.prototype.localeCompare on letters and digits: alphabetical
\* regardless of case, and case only breaks a tie
localeCompare(a, b) ==
    LET primary == LexCompare(PrimaryKeys(a), PrimaryKeys(b))
    IN  IF primary # 0 THEN primary ELSE LexCompare(CaseKeys(a), CaseKeys(b))

\* Array.prototype.sort((a, b) => a.localeCompare(b)): a stable insertion sort
RECURSIVE InsertSorted(_, _)
InsertSorted(sorted, x) ==
    IF sorted = EMPTY THEN << x >>
    ELSE IF localeCompare(x, sorted[Len(sorted)]) < 0
         THEN Append(InsertSorted(SubSeq(sorted, 1, Len(sorted) - 1), x),
                     sorted[Len(sorted)])
    ELSE Append(sorted, x)

RECURSIVE SortFrom(_, _)
SortFrom(arr, acc) ==
    IF arr = EMPTY THEN acc ELSE SortFrom(Tail(arr), InsertSorted(acc, Head(arr)))

sort(arr) == SortFrom(arr, EMPTY)

\* app.js:78: const lots
Lots(rows) == sort(uniq([i \in 1..Len(rows) |-> rows[i].loteria]))

\* app.js:67-71
EscapeChar(c) ==
    CASE c = "&" -> << "&", "a", "m", "p", ";" >>
      [] c = "<" -> << "&", "l", "t", ";" >>
      [] c = ">" -> << "&", "g", "t", ";" >>
      [] c = DQ  -> << "&", "q", "u", "o", "t", ";" >>
      [] c = "'" -> << "&", "#", "0", "3", "9", ";" >>
      [] OTHER   -> << c >>

RECURSIVE escapeHtml(_)
escapeHtml(s) ==
    IF s = EMPTY THEN EMPTY ELSE EscapeChar(Head(s)) \o escapeHtml(Tail(s))

EscapedChars == { "&", "<", ">", DQ, "'" }

StartsWith(s, p) == Len(p) <= Len(s) /\ SubSeq(s, 1, Len(p)) = p

\* The value the browser gives an <option value="..."> parsed from innerHTML:
\* the character references of the attribute are decoded.
RECURSIVE AttributeValue(_)
AttributeValue(s) ==
    IF s = EMPTY THEN EMPTY
    ELSE IF \E c \in EscapedChars : StartsWith(s, EscapeChar(c))
         THEN LET c == CHOOSE c \in EscapedChars : StartsWith(s, EscapeChar(c))
              IN  << c >> \o AttributeValue(SubSeq(s, Len(EscapeChar(c)) + 1, Len(s)))
    ELSE << Head(s) >> \o AttributeValue(Tail(s))

\* The option values set by els.lotSel.innerHTML (app.js:79-81), after "Todas"
OptionValues(rows) ==
    LET lots == Lots(rows)
    IN  [i \in 1..Len(lots) |-> AttributeValue(escapeHtml(lots[i]))]

\* app.js:73-75, over a dataset and a category
InCategory(r, cat) == (IF Truthy(r.categoria) THEN r.categoria ELSE s_loteria) = cat

ForCategory(raw, cat) == SelectSeq(raw, LAMBDA r : InCategory(r, cat))

\* Object.values(r): the values in the order the object literal sets them
ObjectValues(r) ==
    << r.categoria, r.fecha, r.loteria, r.horario, r.triple, r.terminal_a_b,
       r.terminal_c, r.numero, r.signo, r.cacho, r.animal >>

\* The callback without the lower-casing of the joined values
Passes_SearchKeepsCase(r, lot, q) ==
    IF Truthy(lot) /\ r.loteria # lot THEN FALSE
    ELSE IF ~Truthy(q) THEN TRUE
    ELSE includes(join(ObjectValues(r), << SP >>), q)

\* The callback of base.filter, app.js:90-94
Passes(r, lot, q) ==
    IF Truthy(lot) /\ r.loteria # lot THEN FALSE
    ELSE IF ~Truthy(q) THEN TRUE
    ELSE includes(toLowerCase(join(ObjectValues(r), << SP >>)), q)

FilterRows(base, lot, q) == SelectSeq(base, LAMBDA r : Passes(r, lot, q))

\* String(n) of a length
Digits == << "0", "1", "2", "3", "4", "5", "6", "7", "8", "9" >>

RECURSIVE String(_)
String(n) ==
    IF n < 10 THEN << Digits[n + 1] >>
    ELSE Append(String(n \div 10), Digits[(n % 10) + 1])

-----------------------------------------------------------------------------
(* The inputs of the page: the feed texts a fetch may deliver, the tab      *)
(* buttons, and what the user may type into the search box.                 *)

s_Triple == <<"T", "r", "i", "p", "l", "e">>
s_Cerdo == <<"C", "e", "r", "d", "o">>
s_cerdo == <<"c", "e", "r", "d", "o">>
s_gato == <<"g", "a", "t", "o">>
s_Zulia == <<"Z", "u", "l", "i", "a">>
s_chance == <<"c", "h", "a", "n", "c", "e">>
s_AyB == <<"A", "&", "B">>
s_Loteria == <<"L", "o", "t", "e", "r", "i", "a">>
s_Horario == <<"H", "o", "r", "a", "r", "i", "o">>
s_20 == <<"2", "0">>
s_775 == <<"7", "7", "5">>
s_1pm == <<"1", " ", "P", "M">>
s_a1 == <<"a", " ", "1">>

Quoted(s) == << DQ >> \o s \o << DQ >>

\* The text of a CSV file from its lines of raw cells
CsvText(lines) ==
    join([i \in 1..Len(lines) |-> join(lines[i], << COMMA >>)], << NL >>)

\* categoria,loteria,numero,animal / animalitos,Triple,20,Cerdo / loteria,Triple,775,
FeedA == CsvText(<< << s_categoria, s_loteria, s_numero, s_animal >>,
                    << s_animalitos, s_Triple, s_20, s_Cerdo >>,
                    << s_loteria, s_Triple, s_775, EMPTY >> >>)

\* Loteria,Horario / "Zulia",1 PM / chance / ,1 PM / A&B,"1 PM" / Zulia, and a
\* closing line break
FeedB == CsvText(<< << s_Loteria, s_Horario >>,
                    << Quoted(s_Zulia), s_1pm >>,
                    << s_chance >>,
                    << EMPTY, s_1pm >>,
                    << s_AyB, Quoted(s_1pm) >>,
                    << s_Zulia, EMPTY >> >>) \o << NL >>

\* A feed of a header and no data
FeedC == CsvText(<< << s_categoria, s_loteria >> >>)

Feeds == { FeedA, FeedB, FeedC }

\* parseCSV(text) of each feed text, computed once
ParsedFeed == [text \in Feeds |-> parseCSV(text)]

\* button.tab[data-cat]
Categories == { s_loteria, s_animalitos }

SearchTexts == { EMPTY, s_Cerdo, s_a1, s_1pm }

\* new Error("No se pudo cargar el CSV") and a rejected fetch or body read
ErrNotOk == "No se pudo cargar el CSV"
ErrNetwork == "Failed to fetch"

\* The loadData() calls the model lets be suspended at once
MaxLoads == 2

InFlight == loads.fetch + loads.text

-----------------------------------------------------------------------------
(* render, applyFilters, setCategory, loadData: each reads the globals and  *)
(* the controls as its caller has just set them (the primed variables).     *)

\* render with the total taken from the category subset
render_SubsetTotal ==
    /\ countPill' = String(Len(FILTERED'))
    /\ totalRows' = String(Len(ForCategory(RAW', CURRENT_CAT')))

\* app.js:134-151: the counts; the grid and the empty notice follow FILTERED
render ==
    /\ countPill' = String(Len(FILTERED'))
    /\ totalRows' = String(Len(RAW'))

\* app.js:84-97
applyFilters ==
    /\ FILTERED' = FilterRows(ForCategory(RAW', CURRENT_CAT'),
                              lotSelValue', toLowerCase(qValue'))
    /\ render

\* app.js:77-82: innerHTML replaces the options, and the first one, "Todas",
\* whose value is empty, is the selected one
populateLotterySelect(rows) ==
    /\ lotSelOptions' = OptionValues(rows)
    /\ lotSelValue' = EMPTY

\* setCategory without the reset of the search box
setCategory_KeepsSearch(cat) ==
    /\ CURRENT_CAT' = cat
    /\ qValue' = qValue
    /\ populateLotterySelect(ForCategory(RAW', CURRENT_CAT'))
    /\ applyFilters

\* app.js:153-175; the select's value, emptied at app.js:157, is emptied again
\* by the options that populateLotterySelect sets
setCategory(cat) ==
    /\ CURRENT_CAT' = cat
    /\ qValue' = EMPTY
    /\ populateLotterySelect(ForCategory(RAW', CURRENT_CAT'))
    /\ applyFilters

\* The catch block also resetting the filters
LoadCatch_ResetsFilters(message) ==
    /\ err' = message
    /\ RAW' = EMPTY
    /\ FILTERED' = EMPTY
    /\ render
    /\ lotSelValue' = EMPTY
    /\ qValue' = EMPTY
    /\ UNCHANGED << CURRENT_CAT, lotSelOptions >>

\* app.js:194-199: the catch block
LoadCatch(message) ==
    /\ err' = message
    /\ RAW' = EMPTY
    /\ FILTERED' = EMPTY
    /\ render
    /\ UNCHANGED << CURRENT_CAT, lotSelValue, lotSelOptions, qValue >>

\* loadData without its finally block
LoadFinally_Forgotten == refreshDisabled' = refreshDisabled

\* app.js:200-202: the finally block
LoadFinally == refreshDisabled' = FALSE

\* History: the handler that has just run, the category it ran with, and
\* whether a filter was set when it began
Completed(op, cat) ==
    /\ lastOp' = [op |-> op, cat |-> cat,
                  dirty |-> Truthy(lotSelValue) \/ Truthy(qValue)]
    /\ prevOp' = lastOp

\* app.js:177-183: loadData up to its first await
LoadDataStart ==
    /\ err' = ""
    /\ refreshDisabled' = TRUE
    /\ loads' = [loads EXCEPT !.fetch = @ + 1]

-----------------------------------------------------------------------------
(* The page as a state machine *)

\* The state once the script has run: the globals of app.js:19-21, the
\* controls as the page declares them, and the loadData() of app.js:229
\* suspended at its fetch.
AppInit ==
    /\ RAW = EMPTY
    /\ FILTERED = EMPTY
    /\ CURRENT_CAT = s_loteria
    /\ lotSelValue = EMPTY
    /\ lotSelOptions = EMPTY
    /\ qValue = EMPTY
    /\ countPill = EMPTY
    /\ totalRows = EMPTY
    /\ err = ""
    /\ refreshDisabled = TRUE
    /\ loads = [fetch |-> 1, text |-> 0]
    /\ lastOp = [op |-> "none", cat |-> EMPTY, dirty |-> FALSE]
    /\ prevOp = [op |-> "none", cat |-> EMPTY, dirty |-> FALSE]

Init ==
    /\ AppInit
    /\ fnKind = "none"
    /\ fnIn = EMPTY
    /\ fnOut = EMPTY
    /\ fnPc = "off"

\* app.js:208: a click on the refresh button, which a disabled button does
\* not deliver
RefreshClick ==
    /\ ~refreshDisabled
    /\ InFlight < MaxLoads
    /\ LoadDataStart
    /\ UNCHANGED << RAW, FILTERED, CURRENT_CAT, lotSelValue, lotSelOptions,
                    qValue, countPill, totalRows, lastOp, prevOp >>
    /\ UNCHANGED fnVars

\* app.js:183-186: the fetch resolves with res.ok and loadData awaits res.text()
FetchResolvesOk ==
    /\ loads.fetch > 0
    /\ loads' = [fetch |-> loads.fetch - 1, text |-> loads.text + 1]
    /\ UNCHANGED << RAW, FILTERED, CURRENT_CAT, lotSelValue, lotSelOptions,
                    qValue, countPill, totalRows, err, refreshDisabled,
                    lastOp, prevOp >>
    /\ UNCHANGED fnVars

\* app.js:184: the fetch resolves with a status that is not a success
FetchResolvesNotOk ==
    /\ loads.fetch > 0
    /\ loads' = [loads EXCEPT !.fetch = @ - 1]
    /\ LoadCatch(ErrNotOk)
    /\ LoadFinally
    /\ Completed("loadFailed", CURRENT_CAT)
    /\ UNCHANGED fnVars

\* app.js:183: the fetch rejects (a network fault)
FetchRejects ==
    /\ loads.fetch > 0
    /\ loads' = [loads EXCEPT !.fetch = @ - 1]
    /\ LoadCatch(ErrNetwork)
    /\ LoadFinally
    /\ Completed("loadFailed", CURRENT_CAT)
    /\ UNCHANGED fnVars

\* app.js:186-193: the body arrives, is parsed and shown
TextResolves(text) ==
    /\ loads.text > 0
    /\ loads' = [loads EXCEPT !.text = @ - 1]
    /\ RAW' = ParsedFeed[text]
    /\ setCategory(CURRENT_CAT)
    /\ LoadFinally
    /\ Completed("loadOk", CURRENT_CAT)
    /\ UNCHANGED err
    /\ UNCHANGED fnVars

\* app.js:186: reading the body rejects
TextRejects ==
    /\ loads.text > 0
    /\ loads' = [loads EXCEPT !.text = @ - 1]
    /\ LoadCatch(ErrNetwork)
    /\ LoadFinally
    /\ Completed("loadFailed", CURRENT_CAT)
    /\ UNCHANGED fnVars

\* app.js:211-226: a click on the tab of another category
TabClick(cat) ==
    /\ Truthy(cat)
    /\ cat # CURRENT_CAT
    /\ RAW' = RAW
    /\ setCategory(cat)
    /\ Completed("setCategory", cat)
    /\ UNCHANGED << err, refreshDisabled, loads >>
    /\ UNCHANGED fnVars

\* app.js:206: the user picks another option of the lottery select
LotChange(v) ==
    /\ v # lotSelValue
    /\ lotSelValue' = v
    /\ UNCHANGED << RAW, CURRENT_CAT, lotSelOptions, qValue >>
    /\ applyFilters
    /\ Completed("lotChange", CURRENT_CAT)
    /\ UNCHANGED << err, refreshDisabled, loads >>
    /\ UNCHANGED fnVars

\* The search box without its input listener
QInput_NoRefilter(v) ==
    /\ v # qValue
    /\ qValue' = v
    /\ UNCHANGED << RAW, CURRENT_CAT, lotSelOptions, lotSelValue, FILTERED,
                    countPill, totalRows >>
    /\ Completed("qInput", CURRENT_CAT)
    /\ UNCHANGED << err, refreshDisabled, loads >>
    /\ UNCHANGED fnVars

\* app.js:207: the user edits the search box
QInput(v) ==
    /\ v # qValue
    /\ qValue' = v
    /\ UNCHANGED << RAW, CURRENT_CAT, lotSelOptions, lotSelValue >>
    /\ applyFilters
    /\ Completed("qInput", CURRENT_CAT)
    /\ UNCHANGED << err, refreshDisabled, loads >>
    /\ UNCHANGED fnVars

\* The values the lottery select offers: "Todas" and the options
Offered == { EMPTY } \cup { lotSelOptions[i] : i \in 1..Len(lotSelOptions) }

\* A load settles: its fetch or its body read resolves or rejects
Settles ==
    \/ FetchResolvesOk
    \/ FetchResolvesNotOk
    \/ FetchRejects
    \/ \E text \in Feeds : TextResolves(text)
    \/ TextRejects

Next ==
    \/ RefreshClick
    \/ FetchResolvesOk
    \/ FetchResolvesNotOk
    \/ FetchRejects
    \/ \E text \in Feeds : TextResolves(text)
    \/ TextRejects
    \/ \E cat \in Categories : TabClick(cat)
    \/ \E v \in Offered : LotChange(v)
    \/ \E v \in SearchTexts : QInput(v)

Spec == Init /\ [][Next]_vars

\* Every fetch and every body read eventually resolves or rejects
FairSpec == Spec /\ WF_vars(Settles)

-----------------------------------------------------------------------------
(* The pure functions, each applied to every input of a bounded set: the    *)
(* input is drawn by the initial state and one step applies the function.   *)

MaxLineLen == 5
MaxCols == 2
MaxDataLines == 2
MaxRecs == 2
MaxRows == 4

SeqsUpTo(S, n) == UNION { [1..k -> S] : k \in 0..n }

FnInit(kind, inputs) ==
    /\ AppInit
    /\ fnKind = kind
    /\ fnIn \in inputs
    /\ fnOut = EMPTY
    /\ fnPc = "in"

FnStep(result) ==
    /\ fnPc = "in"
    /\ fnOut' = result
    /\ fnPc' = "out"
    /\ UNCHANGED << fnKind, fnIn >>
    /\ UNCHANGED appVars

\* The split of one line into raw cells (app.js:38), over lines of commas,
\* double quotes and an ordinary character
LineChars == { COMMA, DQ, "a" }

InitSplit == FnInit("split", SeqsUpTo(LineChars, MaxLineLen))

RunSplit == FnStep(SplitCells(fnIn))

SpecSplit == InitSplit /\ [][RunSplit]_vars

\* parseCSV over the texts of a header line of up to MaxCols cells, each a
\* field name in either case, and up to MaxDataLines lines of
\* up to MaxCols cells, each blank or a value; a line of no cells is blank
s_Fecha == <<"F", "e", "c", "h", "a">>
s_x == <<"x">>

HeaderPool == { s_Fecha, s_fecha, s_categoria }

CellPool == { EMPTY, s_x }

InitParse ==
    FnInit("parse",
           { CsvText(<< h >> \o d) :
               h \in SeqsUpTo(HeaderPool, MaxCols),
               d \in SeqsUpTo(SeqsUpTo(CellPool, MaxCols), MaxDataLines) })

RunParse == FnStep(parseCSV(fnIn))

SpecParse == InitParse /\ [][RunParse]_vars

\* The filter of applyFilters over sequences of parsed records, a selected
\* lottery and a lower-cased search text
RecordPool ==
    { ParsedFeed[FeedA][i] : i \in DOMAIN ParsedFeed[FeedA] }
        \cup { ParsedFeed[FeedB][i] : i \in DOMAIN ParsedFeed[FeedB] }

LotInputs == { EMPTY, s_Triple, s_Zulia, toLowerCase(s_Zulia) }

QInputs == { EMPTY, s_cerdo, s_gato, s_a1, toLowerCase(s_1pm) }

InitQuery ==
    FnInit("query", [ subset : SeqsUpTo(RecordPool, MaxRecs),
                      lot : LotInputs, q : QInputs ])

RunQuery == FnStep(FilterRows(fnIn.subset, fnIn.lot, fnIn.q))

SpecQuery == InitQuery /\ [][RunQuery]_vars

\* The lotteries of populateLotterySelect over rows whose lottery is blank or
\* one of a few names that differ in case, length and first letter
LotPool == { EMPTY, << "b" >>, << "B" >>, << "a", "b" >>, << "Z" >> }

\* The record parseCSV makes of a row of a file whose one column is loteria
RowWithLottery(l) == RecordOf(<< s_loteria >>, << l >>)

InitFacet ==
    FnInit("facet", SeqsUpTo({ RowWithLottery(l) : l \in LotPool }, MaxRows))

RunFacet == FnStep(Lots(fnIn))

SpecFacet == InitFacet /\ [][RunFacet]_vars

-----------------------------------------------------------------------------
(* Properties of the page *)

\* C1: in every state, whatever handlers have run and in whatever order, the
\* result set FILTERED is the filter of the active category's rows of RAW by
\* the selected lottery and the lower-cased search text: no handler leaves a
\* stale result set.
C1_ResultSetIsFresh ==
    FILTERED = FilterRows(ForCategory(RAW, CURRENT_CAT),
                          lotSelValue, toLowerCase(qValue))

\* A search has just narrowed the category's rows to some, not all, of them
C1_Witness ==
    /\ lastOp.op = "qInput"
    /\ Truthy(qValue)
    /\ Len(FILTERED) > 0
    /\ Len(FILTERED) < Len(ForCategory(RAW, CURRENT_CAT))

\* C2: every call of setCategory(cat), from a tab click or from a successful
\* load (which passes the active category), ends with the selected lottery
\* and the search text empty and cat the active category.
C2_SetCategoryResets ==
    lastOp.op \in { "setCategory", "loadOk" } =>
        /\ lotSelValue = EMPTY
        /\ qValue = EMPTY
        /\ CURRENT_CAT = lastOp.cat

\* setCategory has run with the category that was already active, right after
\* another setCategory with the same category, and a filter was set
C2_Witness ==
    /\ lastOp.op = "loadOk"
    /\ lastOp.dirty
    /\ prevOp.cat = lastOp.cat

\* setCategory has run twice in a row with the same category
C2_TwiceInARow ==
    /\ lastOp.op = "loadOk"
    /\ prevOp.op \in { "setCategory", "loadOk" }
    /\ prevOp.cat = lastOp.cat

\* C3: after a failed load the dataset is empty, the result set is empty and
\* the lottery select offers no option but "Todas".
C3_FailedLoadEmptiesAll ==
    lastOp.op = "loadFailed" =>
        /\ RAW = EMPTY
        /\ FILTERED = EMPTY
        /\ lotSelOptions = EMPTY

\* What the catch block does empty: the dataset and the result set
C3_FailedLoadEmptiesData ==
    lastOp.op = "loadFailed" => RAW = EMPTY /\ FILTERED = EMPTY

\* C8: once a handler has run, the total shown is the size of the whole
\* dataset, the filtered count shown is the size of the result set, and the
\* result set is no larger than the dataset.
C8_CountsShown ==
    lastOp.op # "none" =>
        /\ totalRows = String(Len(RAW))
        /\ countPill = String(Len(FILTERED))
        /\ Len(FILTERED) <= Len(RAW)

\* Counts are shown while the category subset is smaller than the dataset and
\* the result set smaller than the subset
C8_Witness ==
    /\ lastOp.op # "none"
    /\ Len(FILTERED) < Len(ForCategory(RAW, CURRENT_CAT))
    /\ Len(ForCategory(RAW, CURRENT_CAT)) < Len(RAW)

\* C9: the refresh button is disabled exactly while a load is in flight, so
\* at most one load is in flight, and, every fetch settling in the end, a
\* disabled button is enabled again.
C9_RefreshGuardsLoad ==
    /\ [](refreshDisabled <=> InFlight = 1)
    /\ [](InFlight <= 1)
    /\ (refreshDisabled ~> ~refreshDisabled)

\* A load started by a click has failed and the button is enabled again
C9_Witness ==
    /\ lastOp.op = "loadFailed"
    /\ prevOp.op = "loadOk"
    /\ ~refreshDisabled
    /\ InFlight = 0

\* C10: no step of a load changes the active category; the step that ends a
\* load with success empties the selected lottery and the search text, and
\* the step that ends it with a failure leaves both as they were.
C10_LoadKeepsCategory ==
    [][ loads' # loads =>
          /\ CURRENT_CAT' = CURRENT_CAT
          /\ (InFlight' < InFlight /\ lastOp'.op = "loadOk") =>
                (lotSelValue' = EMPTY /\ qValue' = EMPTY)
          /\ (InFlight' < InFlight /\ lastOp'.op = "loadFailed") =>
                (lotSelValue' = lotSelValue /\ qValue' = qValue)
          /\ InFlight' < InFlight => lastOp'.op \in { "loadOk", "loadFailed" }
      ]_vars

\* A load has failed with a lottery selected and a search typed, in the
\* category the user had switched to
C10_Witness ==
    /\ lastOp.op = "loadFailed"
    /\ Truthy(lotSelValue)
    /\ Truthy(qValue)
    /\ CURRENT_CAT = s_animalitos

-----------------------------------------------------------------------------
(* Properties of the pure functions *)

\* s holds q as a substring
Contains(s, q) ==
    \E i \in 0..(Len(s) - Len(q)) : SubSeq(s, i + 1, i + Len(q)) = q

\* The eleven field values in schema order, joined with single spaces
AllFieldsJoined(r) ==
    r.categoria \o << SP >> \o r.fecha \o << SP >> \o r.loteria \o << SP >>
        \o r.horario \o << SP >> \o r.triple \o << SP >> \o r.terminal_a_b
        \o << SP >> \o r.terminal_c \o << SP >> \o r.numero \o << SP >>
        \o r.signo \o << SP >> \o r.cacho \o << SP >> \o r.animal

Matches(r, lot, q) ==
    /\ lot = EMPTY \/ r.loteria = lot
    /\ q = EMPTY \/ Contains(toLowerCase(AllFieldsJoined(r)), q)

\* C4: the filter returns exactly the records of the subset, in their order,
\* whose lottery is the selected one (when one is selected, compared exactly)
\* and whose eleven values, joined with spaces and lower-cased, hold the search
\* text (when there is one); with no lottery and no text it returns the subset.
C4_FilterIsExact ==
    fnPc = "out" =>
        /\ fnOut = SelectSeq(fnIn.subset, LAMBDA r : Matches(r, fnIn.lot, fnIn.q))
        /\ (fnIn.lot = EMPTY /\ fnIn.q = EMPTY) => fnOut = fnIn.subset

\* A lottery and a search text together keep some, not all, of the records
C4_Witness ==
    /\ fnKind = "query"
    /\ fnPc = "out"
    /\ fnIn.lot # EMPTY
    /\ fnIn.q # EMPTY
    /\ Len(fnOut) > 0
    /\ Len(fnOut) < Len(fnIn.subset)

\* The cells of a line split at the commas that an even number of double
\* quotes precede: a scan that enters and leaves a quoted stretch at each quote
RECURSIVE ScanCells(_, _, _, _, _)
ScanCells(line, i, quoted, cur, acc) ==
    IF i > Len(line) THEN Append(acc, cur)
    ELSE IF line[i] = COMMA /\ ~quoted
         THEN ScanCells(line, i + 1, quoted, EMPTY, Append(acc, cur))
    ELSE ScanCells(line, i + 1, IF line[i] = DQ THEN ~quoted ELSE quoted,
                   Append(cur, line[i]), acc)

Balanced(line) == QuotesFrom(line, 1) % 2 = 0

\* C5: every line, balanced in its double quotes or not, is split at exactly
\* the commas that an even number of double quotes precede.
C5_SplitsWhereEvenBefore ==
    fnPc = "out" => fnOut = ScanCells(fnIn, 1, FALSE, EMPTY, EMPTY)

\* On the lines whose double quotes are balanced the split is that one
C5_BalancedLinesSplit ==
    (fnPc = "out" /\ Balanced(fnIn)) =>
        fnOut = ScanCells(fnIn, 1, FALSE, EMPTY, EMPTY)

\* A text as the claim reads it: the cells of its header line, the keys they
\* give once lower-cased, and the cells of each data line
HeaderAndRows(text) ==
    LET lines == SplitLines(trim(text))
        cells == RowOf(lines[1])
    IN  [ cells |-> cells,
          keys  |-> [i \in DOMAIN cells |-> toLowerCase(cells[i])],
          rows  |-> [k \in 1..(Len(lines) - 1) |-> RowOf(lines[k + 1])] ]

\* The data lines of a text: one for each line break of the trimmed text
RECURSIVE CountBreaks(_)
CountBreaks(s) ==
    IF s = EMPTY THEN 0
    ELSE (IF Head(s) = NL THEN 1 ELSE 0) + CountBreaks(Tail(s))

DataLineCount(text) == CountBreaks(trim(text))

Distinct(cells) ==
    \A i, j \in DOMAIN cells : i # j => cells[i] # cells[j]

SchemaFields == { "categoria", "fecha", "loteria", "horario", "triple",
                  "terminal_a_b", "terminal_c", "numero", "signo", "cacho",
                  "animal" }

FieldKey ==
    [ categoria |-> s_categoria, fecha |-> s_fecha, loteria |-> s_loteria,
      horario |-> s_horario, triple |-> s_triple,
      terminal_a_b |-> s_terminal_a_b, terminal_c |-> s_terminal_c,
      numero |-> s_numero, signo |-> s_signo, cacho |-> s_cacho,
      animal |-> s_animal ]

DefaultOf(f) == IF f = "categoria" THEN s_loteria ELSE EMPTY

\* The value a field takes from the header position of its key: the row's
\* cell there, and the field's default when the cell is missing or, with
\* blankDefaults, empty
CellOrDefault(row, i, f, blankDefaults) ==
    IF i <= Len(row) /\ (blankDefaults => row[i] # EMPTY)
    THEN row[i]
    ELSE DefaultOf(f)

\* There is one record for each data line and record k follows data line k:
\* every field whose key is at a header position holds the value that
\* position gives it, every other field its default
RecordsFollowLines(text, view, records, blankDefaults) ==
    /\ Len(records) = DataLineCount(text)
    /\ \A k \in DOMAIN records :
          /\ DOMAIN records[k] = SchemaFields
          /\ \A f \in SchemaFields :
                /\ \A i \in DOMAIN view.keys :
                      view.keys[i] = FieldKey[f] =>
                          records[k][f] =
                              CellOrDefault(view.rows[k], i, f, blankDefaults)
                /\ (\A i \in DOMAIN view.keys : view.keys[i] # FieldKey[f]) =>
                      records[k][f] = DefaultOf(f)

\* C6, as stated: for a text whose header cells are distinct, parse returns
\* one record per data line, in line order; a field whose lower-cased header
\* is at position i takes the row's cell i, and a missing cell or a field
\* absent from the header gives the empty string ("loteria" for the category).
C6_CellsAsStated ==
    fnPc = "out" =>
        LET view == HeaderAndRows(fnIn)
        IN  Distinct(view.cells) =>
                RecordsFollowLines(fnIn, view, fnOut, FALSE)

\* C6, amended: for a text whose header cells are distinct once lower-cased,
\* parse returns one record per data line, in line order; a field whose key is
\* at position i takes the row's cell i when that cell is there and not empty,
\* and otherwise, as when the header lacks the field, the empty string
\* ("loteria" for the category).
C6_ParseMapsCells ==
    fnPc = "out" =>
        LET view == HeaderAndRows(fnIn)
        IN  Distinct(view.keys) =>
                RecordsFollowLines(fnIn, view, fnOut, TRUE)

\* A header of two fields, the first in capitals, and two data lines, the
\* first with one cell and the second with two: the records follow the lines,
\* the missing category is the default
C6_Witness ==
    /\ fnKind = "parse"
    /\ fnPc = "out"
    /\ HeaderAndRows(fnIn).cells = << s_Fecha, s_categoria >>
    /\ Len(fnOut) = 2
    /\ fnOut[1].fecha = s_x
    /\ fnOut[1].categoria = s_loteria
    /\ fnOut[2].fecha = EMPTY
    /\ fnOut[2].categoria = s_x

\* C7: the lotteries derived from a sequence of records hold each non-empty
\* lottery of the records exactly once, hold no empty string and nothing the
\* records lack, and ascend in the order of localeCompare; no records give
\* no lotteries.
C7_LotsDistinctSorted ==
    fnPc = "out" =>
        LET given == { fnIn[i].loteria : i \in DOMAIN fnIn }
        IN  /\ \A v \in given \ { EMPTY } :
                  Cardinality({ i \in DOMAIN fnOut : fnOut[i] = v }) = 1
            /\ \A i \in DOMAIN fnOut : fnOut[i] # EMPTY /\ fnOut[i] \in given
            /\ \A i, j \in DOMAIN fnOut :
                  i < j => localeCompare(fnOut[i], fnOut[j]) < 0
            /\ fnIn = EMPTY => fnOut = EMPTY

\* Rows with a blank lottery and a repeated one give three lotteries, the
\* capital after its lower-case form
C7_Witness ==
    /\ fnKind = "facet"
    /\ fnPc = "out"
    /\ Len(fnIn) = 4
    /\ \E i \in DOMAIN fnIn : fnIn[i].loteria = EMPTY
    /\ fnOut = << << "a", "b" >>, << "b" >>, << "B" >> >>

====
